---- MODULE Spec2Model ----
(***************************************************************************)
(* A model of prog_models' PrognosticsModel                                *)
(* (src/prog_models/prognostics_model.py): the simulation driver           *)
(* (simulate_to and simulate_to_threshold, the default threshold_met, and  *)
(* the history the driver records), model construction (__init__ and       *)
(* generate_model), and the dataset loader                                 *)
(* (src/src/prog_models/datasets/nasa_cmapss2.py).                         *)
(*                                                                         *)
(* Times, step sizes and save frequencies are Python ints here, so the     *)
(* arithmetic of the loop (t += dt, next_save += save_freq, t >= next_save,*)
(* t < horizon) is exact, as it is in Python for int arguments.  Rounding  *)
(* of float arguments is outside this model.                               *)
(*                                                                         *)
(* Python values that the driver type-checks are records                   *)
(* [type, val, name]; dicts are functions from their keys.                 *)
(***************************************************************************)
EXTENDS Integers, Sequences, FiniteSets, TLC

VARIABLES
    pc,                 \* "idle", "loop", "returned", "raised"
    error,              \* the exception raised, "" when none
    api,                \* the entry point called
    self,               \* the model instance the call is made on
    time,               \* simulate_to's time argument
    future_loading_eqn, \* argument
    first_output,       \* argument
    options,            \* argument (a dict)
    threshold_keys,     \* argument
    config,             \* simulate_to_threshold's merged configuration
    threshold_met_eqn,  \* the resolved threshold equation
    t, u, x,            \* the run's time, input and state
    dt, save_freq, horizon, next_save, threshold_met,
    thresholds_met,     \* what threshold_met_eqn(t, x) returned last
    times, inputs, states, outputs, event_states,
    calls,              \* how often each equation has been called
    loads,              \* the times future_loading_eqn has been called with, in order
    trace,              \* the calls of the last step, in order, with their arguments
    parameters,         \* PrognosticsModel.parameters, the class attribute
    instances,          \* the model instances constructed so far
    built,              \* the last construction: its arguments and its result
    run_no,             \* of two runs with the same arguments: 0 before, then 1, 2
    first_run,          \* what the first of the two runs ended with
    given,              \* what the caller and the model held before the first run
    cache,              \* nasa_cmapss2.cache: None, or the archive downloaded
    downloads,          \* how many downloads have been made
    loaded              \* the last call of nasa_cmapss2 and what it met and gave

simvars == <<pc, error, api, self, time, future_loading_eqn, first_output, options,
          threshold_keys, config, threshold_met_eqn, t, u, x, dt, save_freq,
          horizon, next_save, threshold_met, thresholds_met, times, inputs, states, outputs,
          event_states, calls, loads, trace>>

modelvars == <<parameters, instances, built>>

twinvars == <<run_no, first_run, given>>

datavars == <<cache, downloads, loaded>>

vars == <<simvars, modelvars, twinvars, datavars>>

argvars == <<api, self, time, future_loading_eqn, first_output, options, threshold_keys>>
runvars == <<t, u, x, dt, save_freq, horizon, next_save, threshold_met, thresholds_met>>
histvars == <<times, inputs, states, outputs, event_states>>

----------------------------------------------------------------------------
\* Bounds of the model.
MaxDt == 3
MaxSaveFreq == 5
MaxHorizon == 6
MaxTime == 4
MaxT == 24

----------------------------------------------------------------------------
\* Python values.
IntV(n) == [type |-> "int", val |-> n, name |-> ""]
StrV(s) == [type |-> "str", val |-> 0, name |-> s]
FloatV(s) == [type |-> "float", val |-> 0, name |-> s]
FnV(f) == [type |-> "function", val |-> 0, name |-> f]
DictV(n) == [type |-> "dict", val |-> n, name |-> "pos"]
NoneV == [type |-> "NoneType", val |-> 0, name |-> ""]

\* isinstance(v, Number)
IsNumber(v) == v.type \in {"int", "float"}
\* callable(v)
Callable(v) == v.type = "function"

\* dict.update: the entries of b win over those of a.
Update(a, b) == [k \in DOMAIN a \cup DOMAIN b |-> IF k \in DOMAIN b THEN b[k] ELSE a[k]]

\* any(d.values()) of a dict of booleans
AnyValue(d) == \E k \in DOMAIN d : d[k]

----------------------------------------------------------------------------
\* The models simulated: the linear system of the concrete scenario (one state
\* pos, one input rate, output = state), with event A alone or with events A and B.
Models ==
    { [name |-> "scenario", inputs |-> {"rate"}, states |-> {"pos"},
       outputs |-> {"pos"}, events |-> <<"A">>,
       event_state |-> "one_event", threshold_met |-> "default"],
      [name |-> "two_events", inputs |-> {"rate"}, states |-> {"pos"},
       outputs |-> {"pos"}, events |-> <<"A", "B">>,
       event_state |-> "two_events", threshold_met |-> "default"] }

NoModel == [name |-> "", inputs |-> {}, states |-> {}, outputs |-> {}, events |-> <<>>,
            event_state |-> "default", threshold_met |-> "default"]

Range(s) == {s[i] : i \in 1..Len(s)}

\* x = initialize(u, z): the state observed in the first output.
initialize(uu, z) == [pos |-> z["pos"]]

\* next_state(t, x, u, dt) = x + dt * u['rate']
next_state(tt, xx, uu, d) == [pos |-> xx.pos + d * uu.rate]

\* output(t, x) = x
output(tt, xx) == xx

\* The event state equations of the models: A is 1 - pos/100 and B is
\* 1 - pos/50, in hundredths; one_event returns A, two_events A and B.
event_state_eqn(f, tt, xx) ==
    [k \in (IF f = "one_event" THEN {"A"} ELSE {"A", "B"}) |->
        IF k = "A" THEN 100 - xx.pos ELSE 100 - 2 * xx.pos]

\* self.event_state(t, x): the model's equation, or PrognosticsModel's
\* default, which returns {}.
event_state(m, tt, xx) ==
    IF m.event_state = "default" THEN <<>> ELSE event_state_eqn(m.event_state, tt, xx)

\* The default threshold_met (a mutant of it follows: <= 0 in place of < 0).
threshold_met_nonstrict(m, tt, xx) ==
    [k \in DOMAIN event_state(m, tt, xx) |-> event_state(m, tt, xx)[k] <= 0]

threshold_met_default(m, tt, xx) ==
    [k \in DOMAIN event_state(m, tt, xx) |-> event_state(m, tt, xx)[k] < 0]

\* The loading functions callers pass: a constant rate 5, and a rate that
\* alternates with the parity of t.
future_loading(f, tt) ==
    IF f = "const5" THEN [rate |-> 5]
    ELSE [rate |-> IF tt % 2 = 0 THEN 20 ELSE 10]

\* simulate_to's threshold equation: lambda t, x: {'a': False}
never_eqn(tt, xx) == [k \in {"a"} |-> FALSE]

\* A threshold equation a caller passes in options.
pos_over_30_eqn(tt, xx) == [k \in {"A"} |-> xx.pos > 30]

\* threshold_met_eqn(t, x) for the resolved equation.
ThresholdEqn(eqn, m, tt, xx) ==
    IF eqn = "self.threshold_met"
    THEN IF m.threshold_met = "default" THEN threshold_met_default(m, tt, xx)
         ELSE pos_over_30_eqn(tt, xx)
    ELSE IF eqn = "never" THEN never_eqn(tt, xx)
    ELSE pos_over_30_eqn(tt, xx)

----------------------------------------------------------------------------
\* threshold_keys: None or a list of event names.
NoKeys == [type |-> "NoneType", keys |-> <<>>]
KeyList(s) == [type |-> "list", keys |-> s]

\* Python's truth value of threshold_keys: None and [] are false.
Truthy(tk) == tk.type = "list" /\ Len(tk.keys) > 0

\* check_thresholds(thresholds_met) raises KeyError for a named key that the
\* threshold equation did not return.
check_thresholds_raises(tk, d) ==
    Truthy(tk) /\ \E i \in 1..Len(tk.keys) : tk.keys[i] \notin DOMAIN d

\* (the named keys ignored: any event stops the run)
check_thresholds_any(tk, d) == AnyValue(d)

check_thresholds(tk, d) ==
    IF ~Truthy(tk) THEN AnyValue(d)
    ELSE \E i \in 1..Len(tk.keys) : d[tk.keys[i]]

----------------------------------------------------------------------------
\* Validation.

\* simulate_to's defaults, with threshold_eqn and horizon among them.
SimulateToDefaults(tm) ==
    [k \in {"dt", "save_freq", "threshold_eqn", "horizon"} |->
        IF k = "dt" THEN IntV(1)
        ELSE IF k = "save_freq" THEN IntV(10)
        ELSE IF k = "threshold_eqn" THEN FnV("never")
        ELSE tm]

\* simulate_to_threshold's defaults; the default horizon is the float 1e100.
SimulateToThresholdDefaults ==
    [k \in {"dt", "save_freq", "horizon"} |->
        IF k = "dt" THEN IntV(1)
        ELSE IF k = "save_freq" THEN IntV(10)
        ELSE FloatV("1e100")]

\* (save_freq left unvalidated)
ConfigInvalid_dt_only(c) ==
    \/ c["dt"].type \notin {"int", "float"}
    \/ c["dt"].val <= 0

\* "Configuration validation": dt and save_freq are an int or a float, and positive.
ConfigInvalid(c) ==
    \/ c["dt"].type \notin {"int", "float"}
    \/ c["dt"].val <= 0
    \/ c["save_freq"].type \notin {"int", "float"}
    \/ c["save_freq"].val <= 0

\* simulate_to's "Input Validation"
TimeInvalid(tm) == ~IsNumber(tm) \/ tm.val <= 0

\* simulate_to_threshold's "Input Validation"
InputInvalid(m, fl, fo, tk) ==
    \/ ~(\A key \in m.outputs : key \in DOMAIN fo)
    \/ ~Callable(fl)
    \/ (Truthy(tk) /\ ~(\A i \in 1..Len(tk.keys) : tk.keys[i] \in Range(m.events)))

\* t < horizon; every time the model reaches is below 1e100.
BelowHorizon(tt, h) == IF h.type = "float" THEN TRUE ELSE tt < h.val

\* (the loop running while t <= horizon)
LoopCondition_inclusive(met, tt, h) == ~met /\ (IF h.type = "float" THEN TRUE ELSE tt <= h.val)

\* while not threshold_met and t < horizon
LoopCondition(met, tt, h) == ~met /\ BelowHorizon(tt, h)

\* (the loading evaluated before the time is advanced)
StepInput_stale(fl, tt, d) == future_loading(fl.name, tt)

\* (the time not advanced before the loading is evaluated)
LoadTime_stale(tt, d) == tt

\* t += dt: the time the step's calls are made with.
LoadTime(tt, d) == tt + d

\* t += dt; u = future_loading_eqn(t)
StepInput(fl, tt, d) == future_loading(fl.name, LoadTime(tt, d))

\* (a save already one time unit before the save instant)
SavePoint_early(tt, ns) == tt >= ns - 1

\* (a save only on passing the save instant)
SavePoint_strict(tt, ns) == tt > ns

\* if (t >= next_save)
SavePoint(tt, ns) == tt >= ns

\* (the final point recorded always, and never)
NeedFinal_always(ts, tt) == TRUE
NeedFinal_never(ts, tt) == FALSE

\* if times[-1] != t
NeedFinal(ts, tt) == ts[Len(ts)] # tt

NoCalls == [future_loading |-> 0, initialize |-> 0, next_state |-> 0,
            output |-> 0, event_state |-> 0, threshold_met_eqn |-> 0]

Called(c, f, n) == [c EXCEPT ![f] = @ + n]

\* The calls of one iteration in the order the loop body makes them, up to the
\* decision on saving.
StepCalls(fl, tt, xx, d, ns) ==
    LET t1 == tt + d
        u1 == StepInput(fl, tt, d)
        x1 == next_state(t1, xx, u1, d)
    IN  << <<"future_loading", LoadTime(tt, d)>>,
           <<"next_state", t1, xx, u1, d>>,
           <<"threshold_met_eqn", t1, x1>>,
           <<"save", SavePoint(t1, ns)>> >>

----------------------------------------------------------------------------
\* Raising an exception: nothing of a run is recorded and nothing is returned.
Raise(e) ==
    /\ pc' = "raised"
    /\ error' = e
    /\ UNCHANGED <<config, threshold_met_eqn, runvars, histvars, calls, loads, trace>>

\* (the starting state of the configuration ignored)
FirstState_initialize(cfg, uu, fo) == initialize(uu, fo)

\* if 'x' in config: x = config['x'] else: x = self.initialize(u, first_output)
FirstState(cfg, uu, fo) ==
    IF "x" \in DOMAIN cfg THEN [pos |-> cfg["x"].val] ELSE initialize(uu, fo)

\* (the threshold equation evaluated on the starting state)
InitiallyMet_evaluated(tk, eqn, m, x0) ==
    /\ ~check_thresholds_raises(tk, ThresholdEqn(eqn, m, 0, x0))
    /\ check_thresholds(tk, ThresholdEqn(eqn, m, 0, x0))

\* threshold_met = False: Setup does not call the threshold equation.
InitiallyMet(tk, eqn, m, x0) == FALSE

\* The body of simulate_to_threshold up to the loop: validation, configuration, setup.
SimulateToThresholdBody(m, fl, fo, opts, tk) ==
    LET cfg == Update(SimulateToThresholdDefaults, opts)
        u0 == future_loading(fl.name, 0)
        x0 == FirstState(cfg, u0, fo)
    IN  IF InputInvalid(m, fl, fo, tk) \/ ConfigInvalid(cfg)
        THEN Raise("ProgModelInputException")
        ELSE /\ pc' = "loop"
             /\ error' = ""
             /\ config' = cfg
             /\ threshold_met_eqn' = IF "threshold_eqn" \in DOMAIN cfg
                                     THEN cfg["threshold_eqn"].name
                                     ELSE "self.threshold_met"
             /\ t' = 0
             /\ u' = u0
             /\ x' = x0
             /\ times' = <<0>>
             /\ inputs' = <<u0>>
             /\ states' = <<x0>>
             /\ outputs' = <<output(0, x0)>>
             /\ event_states' = <<event_state(m, 0, x0)>>
             /\ dt' = cfg["dt"].val
             /\ save_freq' = cfg["save_freq"].val
             /\ horizon' = cfg["horizon"]
             /\ next_save' = cfg["save_freq"].val
             /\ threshold_met' = InitiallyMet(tk, threshold_met_eqn', m, x0)
             /\ thresholds_met' = <<>>
             /\ loads' = <<0>>
             /\ trace' = <<>>
             /\ calls' = Called(Called(Called(Called(NoCalls, "future_loading", 1),
                             "initialize", IF "x" \in DOMAIN cfg THEN 0 ELSE 1),
                             "output", 1), "event_state", 1)

simulate_to_threshold(m, fl, fo, opts, tk) ==
    /\ api' = "simulate_to_threshold"
    /\ self' = m
    /\ time' = NoneV
    /\ future_loading_eqn' = fl
    /\ first_output' = fo
    /\ options' = opts
    /\ threshold_keys' = tk
    /\ SimulateToThresholdBody(m, fl, fo, opts, tk)

simulate_to(m, tm, fl, fo, opts) ==
    /\ api' = "simulate_to"
    /\ self' = m
    /\ time' = tm
    /\ future_loading_eqn' = fl
    /\ first_output' = fo
    /\ options' = opts
    /\ threshold_keys' = NoKeys
    /\ IF TimeInvalid(tm) \/ ConfigInvalid(Update(SimulateToDefaults(tm), opts))
       THEN Raise("ProgModelInputException")
       ELSE SimulateToThresholdBody(m, fl, fo, Update(SimulateToDefaults(tm), opts), NoKeys)

\* One iteration of the "Simulate" loop.
Step ==
    /\ pc = "loop"
    /\ LoopCondition(threshold_met, t, horizon)
    /\ t < MaxT
    /\ LET t1 == t + dt
           u1 == StepInput(future_loading_eqn, t, dt)
           x1 == next_state(t1, x, u1, dt)
           met == ThresholdEqn(threshold_met_eqn, self, t1, x1)
       IN  IF check_thresholds_raises(threshold_keys, met)
           THEN /\ pc' = "raised"
                /\ error' = "KeyError"
                /\ t' = t1
                /\ u' = u1
                /\ x' = x1
                /\ thresholds_met' = met
                /\ loads' = Append(loads, LoadTime(t, dt))
                /\ trace' = SubSeq(StepCalls(future_loading_eqn, t, x, dt, next_save), 1, 3)
                /\ calls' = Called(Called(Called(calls, "future_loading", 1),
                                "next_state", 1), "threshold_met_eqn", 1)
                /\ UNCHANGED <<dt, save_freq, horizon, next_save, threshold_met, histvars>>
           ELSE /\ pc' = "loop"
                /\ error' = ""
                /\ t' = t1
                /\ u' = u1
                /\ x' = x1
                /\ thresholds_met' = met
                /\ threshold_met' = check_thresholds(threshold_keys, met)
                /\ loads' = Append(loads, LoadTime(t, dt))
                /\ trace' = StepCalls(future_loading_eqn, t, x, dt, next_save)
                /\ IF SavePoint(t1, next_save)
                   THEN /\ next_save' = next_save + save_freq
                        /\ times' = Append(times, t1)
                        /\ inputs' = Append(inputs, u1)
                        /\ states' = Append(states, x1)
                        /\ outputs' = Append(outputs, output(t1, x1))
                        /\ event_states' = Append(event_states, event_state(self, t1, x1))
                        /\ calls' = Called(Called(Called(Called(Called(calls,
                                        "future_loading", 1), "next_state", 1),
                                        "threshold_met_eqn", 1), "output", 1), "event_state", 1)
                   ELSE /\ calls' = Called(Called(Called(calls, "future_loading", 1),
                                        "next_state", 1), "threshold_met_eqn", 1)
                        /\ UNCHANGED <<next_save, histvars>>
                /\ UNCHANGED <<dt, save_freq, horizon>>
    /\ UNCHANGED <<argvars, config, threshold_met_eqn>>

\* "Save final state" and return.
Finalize ==
    /\ pc = "loop"
    /\ ~LoopCondition(threshold_met, t, horizon)
    /\ pc' = "returned"
    /\ IF NeedFinal(times, t)
       THEN /\ times' = Append(times, t)
            /\ inputs' = Append(inputs, u)
            /\ states' = Append(states, x)
            /\ outputs' = Append(outputs, output(t, x))
            /\ event_states' = Append(event_states, event_state(self, t, x))
            /\ calls' = Called(Called(calls, "output", 1), "event_state", 1)
       ELSE UNCHANGED <<histvars, calls>>
    /\ UNCHANGED <<error, argvars, config, threshold_met_eqn, runvars, loads, trace>>

----------------------------------------------------------------------------
\* The arguments callers pass.
Absent == [type |-> "absent", val |-> 0, name |-> ""]

TimeArgs == {IntV(n) : n \in 0..MaxTime} \cup {StrV("10")}
LoadingArgs == {FnV("const5"), FnV("alt"), IntV(5)}
FirstOutputs == {[k \in {"pos"} |-> 10], [k \in {"other"} |-> 10]}
KeyArgs == {NoKeys, KeyList(<<>>), KeyList(<<"A">>), KeyList(<<"B">>),
            KeyList(<<"A", "B">>), KeyList(<<"C">>)}

OptionKeys == {"dt", "save_freq", "horizon", "threshold_eqn", "x"}

OptionChoices ==
    [dt : {Absent, StrV("1")} \cup {IntV(n) : n \in 0..MaxDt},
     save_freq : {Absent, StrV("5")} \cup {IntV(n) : n \in 0..MaxSaveFreq},
     horizon : {Absent} \cup {IntV(n) : n \in 1..MaxHorizon},
     threshold_eqn : {Absent, FnV("never"), FnV("pos_over_30")},
     x : {Absent, DictV(0), DictV(120)}]

MkOptions(c) == [k \in {kk \in OptionKeys : c[kk] # Absent} |-> c[k]]

OptionArgs == {MkOptions(c) : c \in OptionChoices}

\* Before any construction: the class attribute parameters = {}.
NoKeyLists == [has |-> {}, inputs |-> {}, states |-> {}, outputs |-> {}, events |-> <<>>]
NoEqns == [initialize |-> NoneV, next_state |-> NoneV, output |-> NoneV,
           event_state |-> NoneV, threshold |-> NoneV]
Built(op, n, cls, opts, keys, eqns, result) ==
    [op |-> op, n |-> n, cls |-> cls, options |-> opts, keys |-> keys, eqns |-> eqns,
     result |-> result]
NoBuilt == Built("", 0, "", <<>>, NoKeyLists, NoEqns, "")

ConstructionInit ==
    /\ parameters = <<>>
    /\ instances = <<>>
    /\ built = NoBuilt

\* Before the first of two runs.
NoGiven == [options |-> <<>>, parameters |-> <<>>]
NoRun == [pc |-> "", error |-> "", times |-> <<>>, inputs |-> <<>>, states |-> <<>>,
          outputs |-> <<>>, event_states |-> <<>>]

\* nasa_cmapss2 when the module has been imported: cache = None.
NoCache == [type |-> "NoneType", archive |-> 0]
NoCall == [op |-> "", id |-> "", result |-> "", file |-> 0,
           cache_before |-> NoCache, downloads_before |-> 0, since_clear |-> 0, n |-> 0]

DataInit ==
    /\ cache = NoCache
    /\ downloads = 0
    /\ loaded = NoCall

Init ==
    /\ ConstructionInit
    /\ DataInit
    /\ run_no = 0
    /\ first_run = NoRun
    /\ given = NoGiven
    /\ pc = "idle"
    /\ error = ""
    /\ api = ""
    /\ self = NoModel
    /\ time = NoneV
    /\ future_loading_eqn = NoneV
    /\ first_output = <<>>
    /\ options = <<>>
    /\ threshold_keys = NoKeys
    /\ config = <<>>
    /\ threshold_met_eqn = ""
    /\ t = 0
    /\ u = [rate |-> 0]
    /\ x = [pos |-> 0]
    /\ dt = 0
    /\ save_freq = 0
    /\ horizon = NoneV
    /\ next_save = 0
    /\ threshold_met = FALSE
    /\ thresholds_met = <<>>
    /\ times = <<>>
    /\ inputs = <<>>
    /\ states = <<>>
    /\ outputs = <<>>
    /\ event_states = <<>>
    /\ calls = NoCalls
    /\ loads = <<>>
    /\ trace = <<>>

\* A caller calls simulate_to_threshold.
CallSimulateToThreshold ==
    /\ pc = "idle"
    /\ \E m \in Models, fl \in LoadingArgs, fo \in FirstOutputs,
          opts \in OptionArgs, tk \in KeyArgs :
          simulate_to_threshold(m, fl, fo, opts, tk)

\* A caller calls simulate_to.
CallSimulateTo ==
    /\ pc = "idle"
    /\ \E m \in Models, tm \in TimeArgs, fl \in LoadingArgs, fo \in FirstOutputs,
          opts \in OptionArgs :
          simulate_to(m, tm, fl, fo, opts)

Next ==
    \/ CallSimulateToThreshold /\ UNCHANGED <<modelvars, twinvars, datavars>>
    \/ CallSimulateTo /\ UNCHANGED <<modelvars, twinvars, datavars>>
    \/ Step /\ UNCHANGED <<modelvars, twinvars, datavars>>
    \/ Finalize /\ UNCHANGED <<modelvars, twinvars, datavars>>

Spec == Init /\ [][Next]_vars

----------------------------------------------------------------------------
\* Notions the properties below are stated with.

InRun == pc \in {"loop", "returned"}
Returned == pc = "returned"
Last(s) == s[Len(s)]

\* The state the run starts from.
StartState ==
    IF "x" \in DOMAIN options THEN [pos |-> options["x"].val]
    ELSE initialize(future_loading(future_loading_eqn.name, 0), first_output)

\* next_state applied n times from x0 with step d, the k-th application at
\* time k*d with input future_loading(k*d).
RECURSIVE Iterate(_, _, _, _)
Iterate(fl, x0, d, n) ==
    IF n = 0 THEN x0
    ELSE next_state(n * d, Iterate(fl, x0, d, n - 1), future_loading(fl, n * d), d)

\* The state of the run after n steps.
StateAt(n) == Iterate(future_loading_eqn.name, StartState, dt, n)

StrictlyIncreasing(s) == \A i \in 1..Len(s) - 1 : s[i] < s[i + 1]

\* C1: in every run (dt > 0, save_freq > 0, horizon > 0) the timestamps start
\* at 0 and are strictly increasing, and at return the last one is greater than
\* or equal to every other one and at most horizon + dt.
C1_Timestamps ==
    InRun =>
        /\ dt > 0 /\ save_freq > 0
        /\ Len(times) >= 1 /\ times[1] = 0
        /\ StrictlyIncreasing(times)
        /\ Returned =>
            /\ \A i \in 1..Len(times) : times[i] <= Last(times)
            /\ horizon.type = "int" => (horizon.val > 0 /\ Last(times) <= horizon.val + dt)

\* A run that passed its horizon between two save instants has returned.
C1_Witness ==
    /\ Returned
    /\ horizon.type = "int"
    /\ Last(times) > horizon.val
    /\ Len(times) >= 3
    /\ Last(times) % save_freq # 0

\* The concrete scenario: the one-event linear model, constant rate 5, dt = 1,
\* save_freq = 5, explicit start state pos = 0, no horizon, default threshold.
C2_Scenario ==
    /\ api = "simulate_to_threshold"
    /\ self.name = "scenario"
    /\ future_loading_eqn = FnV("const5")
    /\ DOMAIN options = {"dt", "save_freq", "x"}
    /\ options["dt"] = IntV(1)
    /\ options["save_freq"] = IntV(5)
    /\ options["x"] = DictV(0)
    /\ threshold_keys = NoKeys

AlwaysFalseThreshold == threshold_met_eqn = "never" /\ ~Truthy(threshold_keys)

C4_FirstAndLast ==
    InRun =>
        /\ times[1] = 0
        /\ states[1] = StartState
        /\ Returned =>
            /\ ~LoopCondition(threshold_met, t, horizon)
            /\ Last(times) = t
            /\ Last(states) = x
            /\ x = StateAt(t \div dt)
            /\ t % dt = 0

\* A run that exited strictly between two save instants.
C4_Witness ==
    /\ Returned
    /\ t % save_freq # 0
    /\ t > save_freq
    /\ Last(times) = t
    /\ "x" \notin DOMAIN options

\* C5: the five sequences have the same length and are index-aligned.
C5_Aligned ==
    InRun =>
        /\ Len(inputs) = Len(times)
        /\ Len(states) = Len(times)
        /\ Len(outputs) = Len(times)
        /\ Len(event_states) = Len(times)
        /\ \A i \in 1..Len(times) :
            /\ times[i] % dt = 0
            /\ inputs[i] = future_loading(future_loading_eqn.name, times[i])
            /\ states[i] = StateAt(times[i] \div dt)
            /\ outputs[i] = output(times[i], states[i])
            /\ event_states[i] = event_state(self, times[i], states[i])

\* A returned history of four or more points under the time-varying loading.
C5_Witness ==
    /\ Returned
    /\ Len(times) >= 4
    /\ future_loading_eqn = FnV("alt")
    /\ inputs[2] # inputs[3]

\* The resolved threshold equation's verdict on event A after n steps.
MetA(n) == ThresholdEqn(threshold_met_eqn, self, n * dt, StateAt(n))["A"]

\* C6: on a model with events A and B run with threshold_keys = ['A'], a step
\* at which A's threshold is false (B's may be true) does not end the run, and
\* the run ends at the first step at which A's threshold is true or the horizon
\* is reached.
C6_KeyFiltering ==
    (InRun /\ threshold_keys = KeyList(<<"A">>) /\ self.events = <<"A", "B">>) =>
        LET n == t \div dt
        IN  /\ t = n * dt
            /\ \A j \in 1..(n - 1) : ~MetA(j) /\ BelowHorizon(j * dt, horizon)
            /\ (pc = "loop" /\ n >= 1 /\ ~MetA(n) /\ BelowHorizon(t, horizon))
                  => LoopCondition(threshold_met, t, horizon)
            /\ Returned => (n >= 1 /\ (MetA(n) \/ ~BelowHorizon(t, horizon)))

\* A run that went on through steps at which only B's threshold was true and
\* ended, below its horizon, when A's became true.
C6_Witness ==
    /\ Returned
    /\ threshold_keys = KeyList(<<"A">>)
    /\ self.events = <<"A", "B">>
    /\ threshold_met_eqn = "self.threshold_met"
    /\ BelowHorizon(t, horizon)
    /\ thresholds_met["A"]
    /\ \E j \in 1..((t \div dt) - 1) :
          /\ threshold_met_default(self, j * dt, StateAt(j))["B"]
          /\ ~threshold_met_default(self, j * dt, StateAt(j))["A"]

\* C7 as stated: every simulate_to run uses horizon = time and the always-false
\* threshold equation, and stops at the first step time n*dt >= time.
C7_HorizonIsTime ==
    (InRun /\ api = "simulate_to") =>
        /\ horizon = time
        /\ threshold_met_eqn = "never"
        /\ Returned => (t >= time.val /\ t - dt < time.val)

\* ceil(a / b) for positive integers
Ceil(a, b) == (a + b - 1) \div b

InvalidArgument ==
    \/ api = "simulate_to" /\ (time.type \notin {"int", "float"} \/ time.val <= 0)
    \/ "dt" \in DOMAIN options
         /\ (options["dt"].type \notin {"int", "float"} \/ options["dt"].val <= 0)
    \/ "save_freq" \in DOMAIN options
         /\ (options["save_freq"].type \notin {"int", "float"} \/ options["save_freq"].val <= 0)
    \/ \E key \in self.outputs : key \notin DOMAIN first_output
    \/ future_loading_eqn.type # "function"
    \/ \E i \in 1..Len(threshold_keys.keys) : threshold_keys.keys[i] \notin Range(self.events)

\* C10: a call with an invalid argument raises an input/configuration error
\* before any equation is called, and returns no history.
C10_EagerValidation ==
    (pc # "idle" /\ InvalidArgument) =>
        /\ pc = "raised"
        /\ error = "ProgModelInputException"
        /\ calls = NoCalls
        /\ times = <<>> /\ inputs = <<>> /\ states = <<>>
        /\ outputs = <<>> /\ event_states = <<>>

\* A call whose only invalid argument is a threshold key the model lacks.
C10_Witness ==
    /\ pc = "raised"
    /\ api = "simulate_to_threshold"
    /\ threshold_keys = KeyList(<<"C">>)
    /\ future_loading_eqn.type = "function"
    /\ "pos" \in DOMAIN first_output
    /\ DOMAIN options = {}

----------------------------------------------------------------------------
\* Model construction: PrognosticsModel.__init__ and generate_model.

MaxConstructions == 2

\* Parameter values: a number, or a mapping from state keys to one number.
Num(n) == [type |-> "int", val |-> n, keys |-> {}]
PerState(n, S) == [type |-> "dict", val |-> n, keys |-> S]

\* A model type (a subclass of PrognosticsModel): the class attributes it
\* declares, and their values.  None of the types declares parameters of its
\* own, so self.parameters is PrognosticsModel.parameters for all of them.
ModelType(nm, decl, ins, sts, outs) ==
    [name |-> nm, declared |-> decl, inputs |-> ins, states |-> sts, outputs |-> outs,
     events |-> <<"A">>, event_state |-> "one_event", threshold_met |-> "default"]

AllKeys == {"inputs", "states", "outputs"}

ModelTypes ==
    { ModelType("Linear", AllKeys, {"rate"}, {"pos"}, {"pos"}),
      ModelType("TwoState", AllKeys, {"rate"}, {"pos", "vel"}, {"pos"}),
      ModelType("NoInputs", AllKeys \ {"inputs"}, {}, {"pos"}, {"pos"}),
      ModelType("NoStates", AllKeys \ {"states"}, {"rate"}, {}, {"pos"}),
      ModelType("NoOutputs", AllKeys \ {"outputs"}, {"rate"}, {"pos"}, {}),
      ModelType("EmptyInputs", AllKeys, {}, {"pos"}, {"pos"}),
      ModelType("EmptyStates", AllKeys, {"rate"}, {}, {"pos"}),
      ModelType("EmptyOutputs", AllKeys, {"rate"}, {"pos"}, {}) }

\* The options dicts constructions are given.
ConstructionOptions ==
    { <<>>,
      [k \in {"gain"} |-> Num(7)],
      [k \in {"process_noise"} |-> Num(1)],
      [k \in {"process_noise"} |-> Num(2)],
      [k \in {"process_noise"} |-> PerState(3, {"pos"})] }

\* (each construction starting from parameters of its own)
UpdatedParameters_own(params, opts) == opts

\* self.parameters.update(options): self.parameters is the class attribute.
UpdatedParameters(params, opts) == Update(params, opts)

\* The checks of __init__, made on the updated parameters.
InitError(cls, params) ==
    \/ "process_noise" \notin DOMAIN params
    \/ "inputs" \notin cls.declared
    \/ cls.inputs = {}
    \/ "states" \notin cls.declared
    \/ cls.states = {}
    \/ "outputs" \notin cls.declared
    \/ cls.outputs = {}

\* A scalar process_noise is broadcast to the states of the type.
Broadcast(cls, params) ==
    IF IsNumber(params["process_noise"])
    THEN [params EXCEPT !["process_noise"] = PerState(@.val, cls.states)]
    ELSE params

\* The class attribute after __init__(options) on an instance of cls.
ParametersAfterInit(cls, opts) ==
    IF InitError(cls, UpdatedParameters(parameters, opts))
    THEN UpdatedParameters(parameters, opts)
    ELSE Broadcast(cls, UpdatedParameters(parameters, opts))

\* The instance a successful construction yields; parameters is what
\* self.parameters read right after the construction.
Instance(cls, params) ==
    [name |-> cls.name, inputs |-> cls.inputs, states |-> cls.states,
     outputs |-> cls.outputs, events |-> cls.events,
     event_state |-> cls.event_state, threshold_met |-> cls.threshold_met,
     parameters |-> params]

\* SomeModel(options)
Construct(cls, opts) ==
    /\ built.n < MaxConstructions
    /\ parameters' = ParametersAfterInit(cls, opts)
    /\ IF InitError(cls, UpdatedParameters(parameters, opts))
       THEN /\ built' = Built("construct", built.n + 1, cls.name, opts, NoKeyLists, NoEqns,
                               "ProgModelTypeError")
            /\ UNCHANGED instances
       ELSE /\ built' = Built("construct", built.n + 1, cls.name, opts, NoKeyLists, NoEqns, "ok")
            /\ instances' = Append(instances, Instance(cls, parameters'))

ConstructModel ==
    \E cls \in ModelTypes, opts \in ConstructionOptions :
        Construct(cls, opts) /\ UNCHANGED simvars

\* generate_model's arguments.  keys is a dict: has holds the keys it contains.
KeyLists(has, ins, sts, outs, evs) ==
    [has |-> has, inputs |-> ins, states |-> sts, outputs |-> outs, events |-> evs]

GenKeys ==
    { KeyLists(AllKeys \cup {"events"}, {"rate"}, {"pos"}, {"pos"}, <<"A">>),
      KeyLists(AllKeys, {"rate"}, {"pos"}, {"pos"}, <<>>),
      KeyLists(AllKeys, {"rate"}, {"pos", "vel"}, {"pos"}, <<>>),
      KeyLists(AllKeys \ {"inputs"}, {}, {"pos"}, {"pos"}, <<>>),
      KeyLists(AllKeys \ {"states"}, {"rate"}, {}, {"pos"}, <<>>),
      KeyLists(AllKeys \ {"outputs"}, {"rate"}, {"pos"}, {}, <<>>),
      KeyLists(AllKeys, {}, {"pos"}, {"pos"}, <<>>),
      KeyLists(AllKeys, {"rate"}, {}, {"pos"}, <<>>),
      KeyLists(AllKeys, {"rate"}, {"pos"}, {}, <<>>) }

\* The equations passed: functions, None (not supplied), and values that are
\* not callable (0 and 5, "f").
Eqns(i, n, o, es, th) ==
    [initialize |-> i, next_state |-> n, output |-> o, event_state |-> es, threshold |-> th]

GenEqns ==
    { Eqns(FnV("initialize"), FnV("next_state"), FnV("output"), es, th) :
        es \in {NoneV, FnV("one_event"), IntV(0), IntV(5)},
        th \in {NoneV, FnV("pos_over_30")} }
    \cup
    { Eqns(FnV("initialize"), FnV("next_state"), FnV("output"), NoneV, th) :
        th \in {IntV(0), StrV("f")} }
    \cup
    { Eqns(IntV(5), FnV("next_state"), FnV("output"), NoneV, NoneV),
      Eqns(FnV("initialize"), IntV(5), FnV("output"), NoneV, NoneV),
      Eqns(FnV("initialize"), FnV("next_state"), IntV(5), NoneV, NoneV) }

\* config: the default {'process_noise': 0.1} (numbers are in tenths), and {}.
GenConfigs == { [k \in {"process_noise"} |-> Num(1)], <<>> }

\* Python's truth value: None, 0 and '' are false.
TruthyValue(v) ==
    \/ v.type = "function"
    \/ v.type = "int" /\ v.val # 0
    \/ v.type = "str" /\ v.name # ""

\* generate_model's "Input validation"
GenInvalid(keys, e) ==
    \/ ~Callable(e.initialize)
    \/ ~Callable(e.next_state)
    \/ ~Callable(e.output)
    \/ (TruthyValue(e.event_state) /\ ~Callable(e.event_state))
    \/ (TruthyValue(e.threshold) /\ ~Callable(e.threshold))
    \/ "inputs" \notin keys.has
    \/ "states" \notin keys.has
    \/ "outputs" \notin keys.has

\* class NewProgModel(PrognosticsModel): the key lists as class attributes;
\* events, event_state and threshold_met are those of PrognosticsModel.
NewProgModel(keys) ==
    [name |-> "NewProgModel", declared |-> AllKeys, inputs |-> keys.inputs,
     states |-> keys.states, outputs |-> keys.outputs,
     events |-> <<>>, event_state |-> "default", threshold_met |-> "default"]

\* (the events of keys not attached)
GenEvents_dropped(keys, evs) == evs

\* if 'events' in keys: m.events = keys['events']
GenEvents(keys, evs) == IF "events" \in keys.has THEN keys.events ELSE evs

\* (the event state equation not attached)
GenEventState_dropped(e, es) == es

\* if event_state_eqn: m.event_state = event_state_eqn
GenEventState(e, es) == IF TruthyValue(e.event_state) THEN e.event_state.name ELSE es

\* if threshold_eqn: m.threshold_met = threshold_eqn
GenThreshold(e, th) == IF TruthyValue(e.threshold) THEN e.threshold.name ELSE th

\* m.initialize, m.next_state and m.output are the equations passed; events,
\* event_state and threshold_met are attached when given.
Attach(m, keys, e) ==
    [m EXCEPT !.events = GenEvents(keys, @),
              !.event_state = GenEventState(e, @),
              !.threshold_met = GenThreshold(e, @)]

generate_model(keys, e, cfg) ==
    /\ built.n < MaxConstructions
    /\ IF GenInvalid(keys, e)
       THEN /\ built' = Built("generate_model", built.n + 1, "NewProgModel", cfg, keys, e,
                               "ProgModelTypeError")
            /\ UNCHANGED <<parameters, instances>>
       ELSE /\ parameters' = ParametersAfterInit(NewProgModel(keys), cfg)
            /\ IF InitError(NewProgModel(keys), UpdatedParameters(parameters, cfg))
               THEN /\ built' = Built("generate_model", built.n + 1, "NewProgModel", cfg,
                                       keys, e, "ProgModelTypeError")
                    /\ UNCHANGED instances
               ELSE /\ built' = Built("generate_model", built.n + 1, "NewProgModel", cfg,
                                       keys, e, "ok")
                    /\ instances' = Append(instances,
                            Attach(Instance(NewProgModel(keys), parameters'), keys, e))

GenerateModel ==
    \E keys \in GenKeys, e \in GenEqns, cfg \in GenConfigs :
        generate_model(keys, e, cfg) /\ UNCHANGED simvars

NextModels ==
    \/ ConstructModel /\ UNCHANGED <<twinvars, datavars>>
    \/ GenerateModel /\ UNCHANGED <<twinvars, datavars>>

SpecModels == Init /\ [][NextModels]_vars

\* The type of the last construction.
BuiltType == CHOOSE cls \in ModelTypes : cls.name = built.cls

InstanceParameters(i) == parameters

\* C12 as stated: the parameters of every instance constructed earlier are what
\* they were when its construction ended, and a process_noise mapping that
\* covered the instance's state keys still covers exactly those.
C12_InstanceOwnsParameters ==
    \A i \in 1..Len(instances) :
        /\ InstanceParameters(i) = instances[i].parameters
        /\ instances[i].parameters["process_noise"].keys = instances[i].states
              => InstanceParameters(i)["process_noise"].keys = instances[i].states

\* An equation argument that is supplied (not None) and not callable.
SuppliedNotCallable(v) == v.type # "NoneType" /\ v.type # "function"

\* C13 as stated: generate_model fails with a type/definition error when a
\* required equation is not callable, when a supplied event_state_eqn or
\* threshold_eqn is not callable, and when keys lacks inputs, states or outputs
\* or holds an empty list for one; without 'events' in keys the model made
\* declares no events.
C13_GenerateModelValidates ==
    built.op = "generate_model" =>
        /\ (\/ built.eqns.initialize.type # "function"
            \/ built.eqns.next_state.type # "function"
            \/ built.eqns.output.type # "function"
            \/ SuppliedNotCallable(built.eqns.event_state)
            \/ SuppliedNotCallable(built.eqns.threshold)
            \/ ~(AllKeys \subseteq built.keys.has)
            \/ built.keys.inputs = {} \/ built.keys.states = {} \/ built.keys.outputs = {})
           => built.result = "ProgModelTypeError"
        /\ (built.result = "ok" /\ "events" \notin built.keys.has)
           => Last(instances).events = <<>>

----------------------------------------------------------------------------
\* Two runs with the same arguments: one on a model made by generate_model,
\* one on a statically declared subclass wrapping the same functions.

\* class StaticModel(PrognosticsModel) declaring the key lists of keys (events
\* only when keys has them) and defining initialize, next_state and output,
\* and event_state and threshold_met when those equations are given, as calls
\* of the same functions.
StaticModel(keys, e) ==
    [name |-> "StaticModel", inputs |-> keys.inputs, states |-> keys.states,
     outputs |-> keys.outputs,
     events |-> IF "events" \in keys.has THEN keys.events ELSE <<>>,
     event_state |-> IF Callable(e.event_state) THEN e.event_state.name ELSE "default",
     threshold_met |-> IF Callable(e.threshold) THEN e.threshold.name ELSE "default"]

\* The simulation arguments of the two runs.
TwinTimes == {IntV(2), IntV(MaxTime)}
TwinLoadings == {FnV("const5"), FnV("alt")}
TwinKeyArgs == {NoKeys, KeyList(<<>>), KeyList(<<"A">>), KeyList(<<"B">>)}
TwinOptions ==
    { MkOptions(c) : c \in
        [dt : {IntV(1), IntV(MaxDt)},
         save_freq : {Absent, IntV(2)},
         horizon : {Absent, IntV(3), IntV(MaxHorizon)},
         threshold_eqn : {Absent, FnV("pos_over_30")},
         x : {Absent}] }

\* The equations given are functions, or not given.
EquationsGiven(e) ==
    /\ e.event_state.type \in {"NoneType", "function"}
    /\ e.threshold.type \in {"NoneType", "function"}

\* m = PrognosticsModel.generate_model(keys, ...)
TwinGenerate ==
    /\ run_no = 0
    /\ instances = <<>>
    /\ GenerateModel
    /\ UNCHANGED <<twinvars, datavars>>

\* The first run: on the generated model.
TwinFirstRun ==
    /\ run_no = 0
    /\ pc = "idle"
    /\ built.op = "generate_model"
    /\ built.result = "ok"
    /\ EquationsGiven(built.eqns)
    /\ \/ \E fl \in TwinLoadings, fo \in FirstOutputs, opts \in TwinOptions,
             tk \in TwinKeyArgs :
             simulate_to_threshold(Last(instances), fl, fo, opts, tk)
       \/ \E tm \in TwinTimes, fl \in TwinLoadings, fo \in FirstOutputs,
             opts \in TwinOptions :
             simulate_to(Last(instances), tm, fl, fo, opts)
    /\ run_no' = 1
    /\ UNCHANGED <<modelvars, first_run, given, datavars>>

\* What a call ended with.
Outcome ==
    [pc |-> pc, error |-> error, times |-> times, inputs |-> inputs, states |-> states,
     outputs |-> outputs, event_states |-> event_states]

\* The second run: the same call, with the same arguments, on the static model.
TwinSecondRun ==
    /\ run_no = 1
    /\ pc \in {"returned", "raised"}
    /\ IF api = "simulate_to"
       THEN simulate_to(StaticModel(built.keys, built.eqns), time, future_loading_eqn,
                        first_output, options)
       ELSE simulate_to_threshold(StaticModel(built.keys, built.eqns), future_loading_eqn,
                                  first_output, options, threshold_keys)
    /\ run_no' = 2
    /\ first_run' = Outcome
    /\ UNCHANGED <<modelvars, given, datavars>>

NextTwin ==
    \/ TwinGenerate
    \/ TwinFirstRun
    \/ Step /\ UNCHANGED <<modelvars, twinvars, datavars>>
    \/ Finalize /\ UNCHANGED <<modelvars, twinvars, datavars>>
    \/ TwinSecondRun

SpecTwin == Init /\ [][NextTwin]_vars

\* C14: when the second of the two runs (on the static model) has ended, it
\* has ended as the first (on the generated model) did: both returned or both
\* raised the same exception, with the same timestamps, inputs, states, outputs
\* and event states at every index.
C14_FactoryEquivalence ==
    (run_no = 2 /\ pc \in {"returned", "raised"}) => Outcome = first_run

\* Both runs returned a history of several points with event states of the
\* attached event state equation.
C14_Witness ==
    /\ run_no = 2
    /\ pc = "returned"
    /\ self.name = "StaticModel"
    /\ self.event_state = "one_event"
    /\ first_run.pc = "returned"
    /\ Len(times) >= 3
    /\ "A" \in DOMAIN Last(event_states)

----------------------------------------------------------------------------
\* The dataset loader (src/src/prog_models/datasets/nasa_cmapss2.py).

MaxDataCalls == 4

datasets == {"DS01-005", "DS02-006", "DS03-012", "DS04", "DS05", "DS06", "DS07",
             "DS08a-009", "DS08c-008", "DS08d-010"}

\* The ids callers pass: those of the list, and some that are not in it.
DatasetIds == datasets \cup {"DS01", "DS09", ""}

\* (no id refused)
InvalidId_none(dataset_id) == FALSE

\* if dataset_id not in datasets
InvalidId(dataset_id) == dataset_id \notin datasets

\* cache = zipfile.ZipFile(...): the archive of the k-th download.
Archive(k) == [type |-> "ZipFile", archive |-> k]

\* (a download with every valid load_data)
NeedsDownload_always(c) == TRUE

\* if cache is None
NeedsDownload(c) == c = NoCache

\* The record of a call; since_clear counts the downloads made since the last
\* clear_cache (since the import when there was none), made is 1 when this
\* call made one.
Loaded(op, id, result, file, made) ==
    [op |-> op, id |-> id, result |-> result, file |-> file,
     cache_before |-> cache, downloads_before |-> downloads,
     since_clear |-> IF op = "clear_cache" THEN 0 ELSE loaded.since_clear + made,
     n |-> loaded.n + 1]

\* load_data(dataset_id).  The download is taken to succeed.
load_data(dataset_id) ==
    IF InvalidId(dataset_id)
    THEN /\ loaded' = Loaded("load_data", dataset_id, "ValueError", 0, 0)
         /\ UNCHANGED <<cache, downloads>>
    ELSE /\ IF NeedsDownload(cache)
            THEN /\ downloads' = downloads + 1
                 /\ cache' = Archive(downloads + 1)
            ELSE UNCHANGED <<cache, downloads>>
         /\ loaded' = Loaded("load_data", dataset_id, "File", cache'.archive,
                              downloads' - downloads)

LoadData ==
    /\ loaded.n < MaxDataCalls
    /\ \E dataset_id \in DatasetIds : load_data(dataset_id)
    /\ UNCHANGED <<simvars, modelvars, twinvars>>

\* clear_cache()
ClearCache ==
    /\ loaded.n < MaxDataCalls
    /\ cache' = NoCache
    /\ loaded' = Loaded("clear_cache", "", "None", 0, 0)
    /\ UNCHANGED <<downloads, simvars, modelvars, twinvars>>

NextData ==
    \/ LoadData
    \/ ClearCache

SpecData == Init /\ [][NextData]_vars

\* C15: a load_data call with an id that is not in datasets raises ValueError,
\* makes no download and leaves the cache as it was, empty or filled.
C15_InvalidIdRejected ==
    (loaded.op = "load_data" /\ loaded.id \notin datasets) =>
        /\ loaded.result = "ValueError"
        /\ downloads = loaded.downloads_before
        /\ cache = loaded.cache_before

\* An id outside the list was refused while the cache was filled.
C15_Witness ==
    /\ loaded.op = "load_data"
    /\ loaded.id = "DS09"
    /\ loaded.result = "ValueError"
    /\ loaded.cache_before.type = "ZipFile"
    /\ cache = loaded.cache_before

----------------------------------------------------------------------------
\* The stepping loop of a run.

\* The steps the run has taken.
StepsTaken == calls["next_state"]

\* The selected threshold predicate on the state after k steps.
StopPredicateAt(k) ==
    check_thresholds(threshold_keys, ThresholdEqn(threshold_met_eqn, self, k * dt, StateAt(k)))

\* Step time k*dt is at or past the horizon.
HorizonReachedAt(k) == ~BelowHorizon(k * dt, horizon)

\* C16: a run that returned took n >= 1 steps, and n is the first step count
\* at which the selected threshold predicate is true on the post-step state or
\* n*dt >= horizon; a run whose exit condition holds takes no further step; and
\* with a finite horizon a run takes at most ceil(horizon/dt) steps and, while
\* it has not returned, can always take its next step or return.
C16_LoopExit ==
    /\ Returned =>
        /\ StepsTaken >= 1
        /\ t = StepsTaken * dt
        /\ StopPredicateAt(StepsTaken) \/ HorizonReachedAt(StepsTaken)
        /\ \A k \in 1..(StepsTaken - 1) : ~StopPredicateAt(k) /\ ~HorizonReachedAt(k)
        /\ ~ENABLED Step
    /\ (pc = "loop" /\ StepsTaken >= 1
            /\ (StopPredicateAt(StepsTaken) \/ HorizonReachedAt(StepsTaken)))
        => ~ENABLED Step
    /\ (InRun /\ horizon.type = "int") =>
        /\ dt > 0
        /\ StepsTaken <= Ceil(horizon.val, dt)
        /\ pc = "loop" => (ENABLED Step \/ ENABLED Finalize)

\* A run returned on a tripped threshold, some steps before its horizon.
C16_Witness ==
    /\ Returned
    /\ horizon.type = "int"
    /\ StepsTaken >= 2
    /\ StopPredicateAt(StepsTaken)
    /\ t + dt < horizon.val

\* The disjunction of the thresholds of exactly the events named in keys.
NamedThresholds(keys, d) == \E i \in 1..Len(keys) : d[keys[i]]

\* C17 as stated: after every step of a run given a threshold_keys list (the
\* empty list too) the stop predicate is the disjunction of the thresholds of
\* the named events; given no threshold_keys it is the disjunction over all
\* events.
C17_NamedEventsOnly ==
    (pc \in {"loop", "returned"} /\ StepsTaken >= 1) =>
        threshold_met = IF threshold_keys.type = "list"
                        THEN NamedThresholds(threshold_keys.keys, thresholds_met)
                        ELSE AnyValue(thresholds_met)

\* What fails is the empty list alone: for a non-empty list and for no list the
\* statement holds.
C17_NonEmptyLists ==
    (pc \in {"loop", "returned"} /\ StepsTaken >= 1 /\ threshold_keys # KeyList(<<>>)) =>
        threshold_met = IF threshold_keys.type = "list"
                        THEN NamedThresholds(threshold_keys.keys, thresholds_met)
                        ELSE AnyValue(thresholds_met)

----------------------------------------------------------------------------
\* The save schedule of a run.

\* The scheduled saves made so far: next_save starts at save_freq and advances
\* by save_freq with every save.
ScheduledSaves == (next_save \div save_freq) - 1

\* The first step time at or after instant s.
FirstStepTimeAtOrAfter(s) == Ceil(s, dt) * dt

\* C18 as stated: for every dt and save_freq the k-th scheduled save is
\* recorded at the first step time at or after k*save_freq.
C18_SaveSchedule ==
    InRun =>
        \A k \in 1..ScheduledSaves : times[k + 1] = FirstStepTimeAtOrAfter(k * save_freq)

\* C18 amended: for dt <= save_freq the k-th scheduled save is recorded at the
\* first step time at or after k*save_freq; for dt > save_freq every step is
\* recorded, the k-th scheduled save at k*dt.
C18_SaveScheduleSmallSteps ==
    InRun =>
        \A k \in 1..ScheduledSaves :
            times[k + 1] = IF dt <= save_freq THEN FirstStepTimeAtOrAfter(k * save_freq)
                           ELSE k * dt

\* A run with a step size that does not divide the save frequency has made its
\* second scheduled save one step after the instant 2*save_freq.
C18_Witness ==
    /\ InRun
    /\ dt < save_freq
    /\ save_freq % dt # 0
    /\ ScheduledSaves >= 2
    /\ times[3] > 2 * save_freq

\* The step times the loop has visited: 0, dt, ..., t.
StepTimes == {n * dt : n \in 0..StepsTaken}

\* C19: every recorded timestamp is a step time the loop visited, no step
\* records more than one entry (the entries are as many as the steps plus the
\* start point at most, and no two carry the same time), and the k-th
\* scheduled save is at or after k*save_freq.
C19_Overshoot ==
    InRun =>
        /\ \A i \in 1..Len(times) : times[i] \in StepTimes
        /\ Len(times) <= StepsTaken + 1
        /\ StrictlyIncreasing(times)
        /\ \A k \in 1..ScheduledSaves : times[k + 1] >= k * save_freq

\* A returned run whose step size divides neither the save frequency nor the
\* horizon: a scheduled save past its instant, and the last point past the horizon.
C19_Witness ==
    /\ Returned
    /\ horizon.type = "int"
    /\ save_freq % dt # 0
    /\ horizon.val % dt # 0
    /\ ScheduledSaves >= 1
    /\ times[2] > save_freq
    /\ Last(times) > horizon.val

----------------------------------------------------------------------------
\* The order of the calls.

\* C20: when a run has taken n steps, future_loading has been called n + 1
\* times, with 0, dt, ..., n*dt in that order; the calls of the last step were,
\* in order: future_loading at the new t, next_state with the new t, the
\* previous state and the new input, the resolved threshold equation on the new
\* t and the new state, and then the decision on saving.
C20_CallOrder ==
    InRun =>
        /\ calls["future_loading"] = StepsTaken + 1
        /\ loads = [i \in 1..(StepsTaken + 1) |-> (i - 1) * dt]
        /\ StepsTaken >= 1 =>
            /\ Len(trace) = 4
            /\ trace[1] = <<"future_loading", t>>
            /\ trace[2] = <<"next_state", t, StateAt(StepsTaken - 1),
                            future_loading(future_loading_eqn.name, t), dt>>
            /\ trace[3] = <<"threshold_met_eqn", t, x>>
            /\ trace[4][1] = "save"
            /\ pc = "loop" => trace[4][2] = (Last(times) = t)

\* A run of several steps with a loading that changes from step to step; its
\* last step was not saved.
C20_Witness ==
    /\ pc = "loop"
    /\ StepsTaken >= 3
    /\ future_loading_eqn = FnV("alt")
    /\ dt = 1
    /\ trace[4] = <<"save", FALSE>>

----------------------------------------------------------------------------
\* Two consecutive runs on one model instance with the same arguments.

\* The options the runs are given.
RerunOptions ==
    { MkOptions(c) : c \in
        [dt : {IntV(1), IntV(MaxDt)},
         save_freq : {Absent, IntV(2)},
         horizon : {Absent, IntV(3), IntV(MaxHorizon)},
         threshold_eqn : {Absent, FnV("pos_over_30")},
         x : {Absent, DictV(0)}] }

\* (the state of the run written back into the caller's mapping)
OptionsHeld_aliased(opts, xx) == Update(opts, [k \in {"x"} |-> DictV(xx.pos)])

\* The caller's options mapping after a run: config is a dict of its own that
\* options is copied into (config.update(options)), and the equations return
\* new states, so no assignment of the run reaches the caller's mapping.
OptionsHeld(opts, xx) == opts

\* m = SomeModel(options)
RerunConstruct ==
    /\ run_no = 0
    /\ instances = <<>>
    /\ ConstructModel
    /\ UNCHANGED <<twinvars, datavars>>

\* The first run on m.
RerunFirst ==
    /\ run_no = 0
    /\ pc = "idle"
    /\ instances # <<>>
    /\ \/ \E fl \in TwinLoadings, fo \in FirstOutputs, opts \in RerunOptions,
             tk \in TwinKeyArgs :
             /\ simulate_to_threshold(Last(instances), fl, fo, opts, tk)
             /\ given' = [options |-> opts, parameters |-> InstanceParameters(1)]
       \/ \E tm \in TwinTimes, fl \in TwinLoadings, fo \in FirstOutputs,
             opts \in RerunOptions :
             /\ simulate_to(Last(instances), tm, fl, fo, opts)
             /\ given' = [options |-> opts, parameters |-> InstanceParameters(1)]
    /\ run_no' = 1
    /\ UNCHANGED <<modelvars, first_run, datavars>>

\* The second run: the same call on m, with the mapping the caller holds.
RerunSecond ==
    /\ run_no = 1
    /\ pc \in {"returned", "raised"}
    /\ IF api = "simulate_to"
       THEN simulate_to(self, time, future_loading_eqn, first_output, OptionsHeld(options, x))
       ELSE simulate_to_threshold(self, future_loading_eqn, first_output,
                                  OptionsHeld(options, x), threshold_keys)
    /\ run_no' = 2
    /\ first_run' = Outcome
    /\ UNCHANGED <<modelvars, given, datavars>>

NextRerun ==
    \/ RerunConstruct
    \/ RerunFirst
    \/ Step /\ UNCHANGED <<modelvars, twinvars, datavars>>
    \/ Finalize /\ UNCHANGED <<modelvars, twinvars, datavars>>
    \/ RerunSecond

SpecRerun == Init /\ [][NextRerun]_vars

----------------------------------------------------------------------------
\* The starting state of a run.

\* C22: in a run whose configuration holds a starting state 'x' initialize is
\* never called and the first recorded state is that state; in a run whose
\* configuration holds none, initialize is called exactly once and the first
\* recorded state is initialize(future_loading(0), first_output).
C22_StartingState ==
    InRun =>
        IF "x" \in DOMAIN config
        THEN /\ calls["initialize"] = 0
             /\ states[1] = [pos |-> config["x"].val]
        ELSE /\ calls["initialize"] = 1
             /\ states[1] = initialize(future_loading(future_loading_eqn.name, 0), first_output)

\* A returned run of several steps that started from a state given in the
\* configuration, other than the one initialize yields.
C22_Witness ==
    /\ Returned
    /\ "x" \in DOMAIN config
    /\ StepsTaken >= 2
    /\ states[1] # initialize(future_loading(future_loading_eqn.name, 0), first_output)
    /\ calls["initialize"] = 0

\* C23: the threshold equation has been evaluated once per step, so never on
\* the starting state, and a run (its horizon is > 0) that returned has taken
\* at least one step: its history has at least two entries and its last
\* timestamp is at least dt.
C23_AtLeastOneStep ==
    InRun =>
        /\ calls["threshold_met_eqn"] = StepsTaken
        /\ StepsTaken = 0 => ~threshold_met
        /\ (Returned /\ BelowHorizon(0, horizon)) =>
            /\ StepsTaken >= 1
            /\ Len(times) >= 2
            /\ Last(times) >= dt

\* A simulate_to_threshold run whose starting state satisfied the selected
\* threshold returned after its first step.
C23_Witness ==
    /\ Returned
    /\ api = "simulate_to_threshold"
    /\ threshold_keys = KeyList(<<"A">>)
    /\ ThresholdEqn(threshold_met_eqn, self, 0, states[1])["A"]
    /\ StepsTaken = 1
    /\ times = <<0, dt>>
    /\ t < horizon.val

----------------------------------------------------------------------------
\* Downloads of the dataset loader.

ValidLoad == loaded.op = "load_data" /\ loaded.id \in datasets

====
